---- MODULE Spec2Model ----
(***************************************************************************)
(* A model of krl/bunch (src/src/lib.rs): an append-only concurrent arena. *)
(* Elements live in "lanes" (Vec<T>) of capacity 2, 4, 8, ... held in a    *)
(* fixed ArrayVec; push runs under a Mutex guarding the length, get reads  *)
(* the lanes without taking the Mutex, len takes the Mutex.                *)
(*                                                                         *)
(* Threads interleave at the granularity of the accesses to the Bunch: the *)
(* two bounds-checked reads of get (the ArrayVec, then the lane) and the   *)
(* writes of push (the new lane, the new element, the length) are separate *)
(* actions, so each unsynchronised read of get sees the state before or    *)
(* the state after each racing write of push. get's reads are not ordered  *)
(* after the writes of a push that still holds the Mutex: such a read may   *)
(* also see the length of a lane without the element (GetElemRaced).        *)
(***************************************************************************)
EXTENDS Integers, Sequences, FiniteSets, TLC

\* src/src/lib.rs:11: the width of usize. It is a parameter of the model: the
\* arithmetic is the same at every width, and a narrow word lets every index
\* be enumerated and keeps an arena that is full to the top of the index
\* range small.
USIZE_BITS == 8

\* src/src/lib.rs:10: 64, one lane for each bit of the usize of a 64-bit
\* target, so that the lanes cover exactly the indices a usize can hold; the
\* model keeps that relation at the width it runs with
N_LANES == USIZE_BITS

\* Bounds of the model: the n_threads and n of the tests.
MaxThreads == 2
MaxN == 5
\* Bound of the model: how many get and len calls a run makes.
MaxReads == 1

Threads == 0..(MaxThreads - 1)
Values == 0..(MaxN - 1)
Indices == 0..MaxN

\* usize arithmetic: 2^USIZE_BITS values, wrapping in a release build.
WordRange == 2^USIZE_BITS
Wrap(x) == x % WordRange
Overflows(x) == x < 0 \/ x >= WordRange

RECURSIVE BitLen(_)
BitLen(x) == IF x = 0 THEN 0 ELSE 1 + BitLen(x \div 2)

\* leading_zeros counting one bit too few
leading_zeros_short(x) == USIZE_BITS - BitLen(x) - 1

\* usize::leading_zeros
leading_zeros(x) == USIZE_BITS - BitLen(x)

\* 2_usize.pow(n): the mathematical value, which the callers wrap and flag;
\* every power from 2^USIZE_BITS on wraps to 0, so 2^USIZE_BITS stands for them
pow2(n) == 2^(IF n < USIZE_BITS THEN n ELSE USIZE_BITS)

\* lane_size with the factor 2 forgotten
lane_size_half(n) == Wrap(pow2(n))

\* fn lane_size(n) = 2_usize.pow(n as u32) * 2, as a release build computes it
lane_size(n) == Wrap(Wrap(pow2(n)) * 2)

\* an intermediate result of lane_size leaves the usize range
lane_size_overflows(n) == Overflows(pow2(n)) \/ Overflows(Wrap(pow2(n)) * 2)

\* lane_offset with the "- 1" on the lane forgotten
lane_offset_high(offset) ==
    LET i == Wrap(offset \div 2 + 1)
        lane == Wrap(USIZE_BITS - leading_zeros(i))
    IN  <<lane, Wrap(offset - Wrap(Wrap(pow2(lane) - 1) * 2))>>

\* fn lane_offset(offset) -> (lane, offset), as a release build computes it
lane_offset(offset) ==
    LET i == Wrap(offset \div 2 + 1)
        lane == Wrap(USIZE_BITS - leading_zeros(i) - 1)
    IN  <<lane, Wrap(offset - Wrap(Wrap(pow2(lane) - 1) * 2))>>

\* an intermediate result of lane_offset leaves the usize range
lane_offset_overflows(offset) ==
    LET i == offset \div 2 + 1
        lane == USIZE_BITS - leading_zeros(Wrap(i)) - 1
        p == pow2(Wrap(lane))
        m == Wrap(Wrap(p) - 1) * 2
    IN  \/ Overflows(i)
        \/ Overflows(lane)
        \/ Overflows(p)
        \/ Overflows(Wrap(p) - 1)
        \/ Overflows(m)
        \/ Overflows(offset - Wrap(m))

\* the inverse mapping: the logical index of slot (lane, offset)
compose(lane, offset) == (pow2(lane + 1) - 2) + offset

(***************************************************************************)
(* State                                                                   *)
(***************************************************************************)
VARIABLES
    lanes,      \* Bunch.lanes: the ArrayVec of Vec<T>, each [base, cap, data]
    len,        \* Bunch.len: the usize inside the Mutex
    locked,     \* Bunch.len: the Mutex is held
    alive,      \* the Bunch has not been dropped
    nextAddr,   \* the allocator: the next fresh heap address
    n_threads,  \* tests: the number of threads sharing the Bunch
    pc,         \* per thread: its position in push, get or len
    val,        \* per thread: push's argument t
    lane,       \* per thread: the local lane of push and get
    offset,     \* per thread: the local offset of push and get
    idx,        \* per thread: get's argument idx
    ret,        \* per thread: the call's result, <<base, offset>> or <<len>>
    nxt,        \* per thread: tests, the loop variable i of the thread
    reads,      \* the number of get and len calls made so far
    rc,         \* per value: Arc::strong_count of tests::dropping
    released,   \* per value: how often the clone given to push was dropped
    assigned,   \* history: the value of the push that read length i, at i + 1
    known,      \* history: the largest length any caller has been told
    told,       \* history, per thread: its get was called with idx < known
    held,       \* history, per thread: the Mutex was held at every step of its get
    d_in,       \* the pure functions' argument
    d_out,      \* the pure functions' result
    d_pc        \* the pure functions' position

vars == <<lanes, len, locked, alive, nextAddr, n_threads, pc, val, lane, offset,
          idx, ret, nxt, reads, rc, released, assigned, known, told, held,
          d_in, d_out, d_pc>>

shared == <<lanes, len, locked, alive, nextAddr>>
locals == <<val, lane, offset, idx, ret, nxt>>
history == <<assigned, known, told, held, reads>>
pure == <<d_in, d_out, d_pc>>

NoValue == 0 - 1
Dangling == 0 - 2
NoRet == <<>>

Max(a, b) == IF a >= b THEN a ELSE b

\* Bunch::new / Default: no lanes, length 0, Mutex free
BunchNew ==
    /\ lanes = <<>>
    /\ len = 0
    /\ locked = FALSE
    /\ alive = TRUE
    /\ nextAddr = 0

\* tests::multithreading: n_threads threads, thread t pushes the i with
\* i % n_threads == t in increasing order
InitThreads ==
    /\ pc = [t \in Threads |-> "idle"]
    /\ val = [t \in Threads |-> NoValue]
    /\ lane = [t \in Threads |-> 0]
    /\ offset = [t \in Threads |-> 0]
    /\ idx = [t \in Threads |-> 0]
    /\ ret = [t \in Threads |-> NoRet]
    /\ nxt = [t \in Threads |-> t]
    /\ reads = 0
    /\ rc = [v \in Values |-> 1]
    /\ released = [v \in Values |-> 0]
    /\ assigned = <<>>
    /\ known = 0
    /\ told = [t \in Threads |-> FALSE]
    /\ held = [t \in Threads |-> FALSE]

Init ==
    /\ BunchNew
    /\ n_threads \in 1..MaxThreads
    /\ InitThreads
    /\ d_in = 0
    /\ d_out = <<>>
    /\ d_pc = "off"

\* A call's outcome is taken by its caller before any other thread is
\* scheduled: Return and Unwind touch only the thread's own locals, so running
\* them first loses no interleaving of the accesses to the Bunch.
Settled ==
    \A t \in Threads :
        pc[t] \notin {"push_done", "get_done", "len_done", "push_panic", "get_panic"}

\* the value a reference <<base, offset>> points at
Deref(r) ==
    LET hit == {k \in 1..Len(lanes) :
                   lanes[k].base = r[1] /\ r[2] < Len(lanes[k].data)}
    IN  IF hit = {} THEN Dangling
        ELSE LET k == CHOOSE k \in hit : TRUE IN lanes[k].data[r[2] + 1]

\* Vec::with_capacity(size): an empty Vec with a fresh buffer for size elements
with_capacity(size) == [base |-> nextAddr, cap |-> size, data |-> <<>>]

\* Vec::push: in place while len < capacity, else into a new, larger buffer
VecPush(v, x) ==
    IF Len(v.data) < v.cap
    THEN [v EXCEPT !.data = Append(@, x)]
    ELSE [base |-> nextAddr, cap |-> Max(2 * v.cap, 4), data |-> Append(v.data, x)]

\* unwinding out of push with the Mutex left locked
PushPanicLocked(t, owned) ==
    /\ pc' = [pc EXCEPT ![t] = "push_panic"]
    /\ locked' = locked
    /\ rc' = IF owned THEN [rc EXCEPT ![val[t]] = @ - 1] ELSE rc
    /\ released' = IF owned THEN [released EXCEPT ![val[t]] = @ + 1] ELSE released

\* unwinding out of push: the MutexGuard is dropped, and so is the value t
\* when it has not been moved into a lane yet
PushPanic(t, owned) ==
    /\ pc' = [pc EXCEPT ![t] = "push_panic"]
    /\ locked' = FALSE
    /\ rc' = IF owned THEN [rc EXCEPT ![val[t]] = @ - 1] ELSE rc
    /\ released' = IF owned THEN [released EXCEPT ![val[t]] = @ + 1] ELSE released

\* tests: vec.push(i) is called, with a fresh clone of the i-th Arc
PushCall(t) ==
    /\ alive
    /\ t < n_threads
    /\ pc[t] = "idle"
    /\ Settled
    /\ nxt[t] < MaxN
    /\ pc' = [pc EXCEPT ![t] = "push_lock"]
    /\ val' = [val EXCEPT ![t] = nxt[t]]
    /\ nxt' = [nxt EXCEPT ![t] = @ + n_threads]
    /\ rc' = [rc EXCEPT ![nxt[t]] = @ + 1]
    /\ UNCHANGED <<shared, lane, offset, idx, ret, released, history, n_threads, pure>>

\* push without waiting for the Mutex
PushLockNoWait(t) ==
    /\ pc[t] = "push_lock"
    /\ Settled
    /\ locked' = TRUE
    /\ LET lo == lane_offset(len)
       IN  /\ lane' = [lane EXCEPT ![t] = lo[1]]
           /\ offset' = [offset EXCEPT ![t] = lo[2]]
           /\ pc' = [pc EXCEPT ![t] = IF lo[2] = 0 THEN "push_alloc" ELSE "push_write"]
    /\ assigned' = Append(assigned, val[t])
    /\ UNCHANGED <<lanes, len, alive, nextAddr, val, idx, ret, nxt, rc, released,
                   known, told, held, reads, n_threads, pure>>

\* push allocating a lane whatever the offset
PushLockAllocAlways(t) ==
    /\ pc[t] = "push_lock"
    /\ Settled
    /\ ~locked
    /\ locked' = TRUE
    /\ LET lo == lane_offset(len)
       IN  /\ lane' = [lane EXCEPT ![t] = lo[1]]
           /\ offset' = [offset EXCEPT ![t] = lo[2]]
           /\ pc' = [pc EXCEPT ![t] = "push_alloc"]
    /\ assigned' = Append(assigned, val[t])
    /\ UNCHANGED <<lanes, len, alive, nextAddr, val, idx, ret, nxt, rc, released,
                   known, told, held, reads, n_threads, pure>>

\* push: self.len.lock(), then lane_offset(*len)
PushLock(t) ==
    /\ pc[t] = "push_lock"
    /\ Settled
    /\ ~locked
    /\ locked' = TRUE
    /\ LET lo == lane_offset(len)
       IN  /\ lane' = [lane EXCEPT ![t] = lo[1]]
           /\ offset' = [offset EXCEPT ![t] = lo[2]]
           /\ pc' = [pc EXCEPT ![t] = IF lo[2] = 0 THEN "push_alloc" ELSE "push_write"]
    /\ assigned' = Append(assigned, val[t])
    /\ UNCHANGED <<lanes, len, alive, nextAddr, val, idx, ret, nxt, rc, released,
                   known, told, held, reads, n_threads, pure>>

\* push appending the lane without the capacity check of ArrayVec::push
PushAllocUnchecked(t) ==
    /\ pc[t] = "push_alloc"
    /\ Settled
    /\ \E wraps \in (IF lane_size_overflows(lane[t]) THEN BOOLEAN ELSE {TRUE}) :
          IF ~wraps
          THEN /\ PushPanic(t, TRUE)
               /\ UNCHANGED <<lanes, nextAddr>>
          ELSE /\ lanes' = Append(lanes, with_capacity(lane_size(lane[t])))
               /\ nextAddr' = nextAddr + 1
               /\ pc' = [pc EXCEPT ![t] = "push_write"]
               /\ UNCHANGED <<locked, rc, released>>
    /\ UNCHANGED <<len, alive, locals, history, n_threads, pure>>

\* push creating the lane with Vec::new() instead of with_capacity
PushAllocUnsized(t) ==
    /\ pc[t] = "push_alloc"
    /\ Settled
    /\ \E wraps \in (IF lane_size_overflows(lane[t]) THEN BOOLEAN ELSE {TRUE}) :
          IF ~wraps \/ Len(lanes) >= N_LANES
          THEN /\ PushPanic(t, TRUE)
               /\ UNCHANGED <<lanes, nextAddr>>
          ELSE /\ lanes' = Append(lanes, with_capacity(0))
               /\ nextAddr' = nextAddr + 1
               /\ pc' = [pc EXCEPT ![t] = "push_write"]
               /\ UNCHANGED <<locked, rc, released>>
    /\ UNCHANGED <<len, alive, locals, history, n_threads, pure>>

\* push, offset == 0: lanes.push(Vec::with_capacity(lane_size(lane))).
\* lane_size panics on overflow in a debug build and wraps in a release
\* build; ArrayVec::push panics when all N_LANES lanes exist.
PushAlloc(t) ==
    /\ pc[t] = "push_alloc"
    /\ Settled
    /\ \E wraps \in (IF lane_size_overflows(lane[t]) THEN BOOLEAN ELSE {TRUE}) :
          IF ~wraps \/ Len(lanes) >= N_LANES
          THEN /\ PushPanic(t, TRUE)
               /\ UNCHANGED <<lanes, nextAddr>>
          ELSE /\ lanes' = Append(lanes, with_capacity(lane_size(lane[t])))
               /\ nextAddr' = nextAddr + 1
               /\ pc' = [pc EXCEPT ![t] = "push_write"]
               /\ UNCHANGED <<locked, rc, released>>
    /\ UNCHANGED <<len, alive, locals, history, n_threads, pure>>

\* push appending to the first lane instead of lanes[lane]
PushWriteLaneZero(t) ==
    /\ pc[t] = "push_write"
    /\ Settled
    /\ IF lane[t] >= Len(lanes)
       THEN /\ PushPanic(t, TRUE)
            /\ UNCHANGED <<lanes, nextAddr>>
       ELSE /\ lanes' = [lanes EXCEPT ![1] = VecPush(@, val[t])]
            /\ nextAddr' = IF VecPush(lanes[1], val[t]).base = lanes[1].base
                            THEN nextAddr ELSE nextAddr + 1
            /\ pc' = [pc EXCEPT ![t] = "push_inc"]
            /\ UNCHANGED <<locked, rc, released>>
    /\ UNCHANGED <<len, alive, locals, history, n_threads, pure>>

\* push: lanes[lane].push(t); indexing the ArrayVec panics out of bounds
PushWrite(t) ==
    /\ pc[t] = "push_write"
    /\ Settled
    /\ IF lane[t] >= Len(lanes)
       THEN /\ PushPanic(t, TRUE)
            /\ UNCHANGED <<lanes, nextAddr>>
       ELSE /\ lanes' = [lanes EXCEPT ![lane[t] + 1] = VecPush(@, val[t])]
            /\ nextAddr' = IF VecPush(lanes[lane[t] + 1], val[t]).base
                                = lanes[lane[t] + 1].base
                            THEN nextAddr ELSE nextAddr + 1
            /\ pc' = [pc EXCEPT ![t] = "push_inc"]
            /\ UNCHANGED <<locked, rc, released>>
    /\ UNCHANGED <<len, alive, locals, history, n_threads, pure>>

\* push: *len += 1, releasing the Mutex too early
PushIncUnlock(t) ==
    /\ pc[t] = "push_inc"
    /\ Settled
    /\ len' = Wrap(len + 1)
    /\ locked' = FALSE
    /\ pc' = [pc EXCEPT ![t] = "push_ret"]
    /\ UNCHANGED <<lanes, alive, nextAddr, locals, rc, released, history,
                   n_threads, pure>>

\* push: *len += 1. The length is usize::MAX only in a build whose
\* arithmetic wraps (with overflow checks lane_size panics before, and the
\* last lane is never created), so the sum wraps to 0 there.
PushInc(t) ==
    /\ pc[t] = "push_inc"
    /\ Settled
    /\ len' = Wrap(len + 1)
    /\ pc' = [pc EXCEPT ![t] = "push_ret"]
    /\ UNCHANGED <<lanes, locked, alive, nextAddr, locals, rc, released, history,
                   n_threads, pure>>

\* push returning with the MutexGuard leaked, the Mutex staying locked
PushRetKeepsLock(t) ==
    /\ pc[t] = "push_ret"
    /\ Settled
    /\ IF lane[t] < Len(lanes) /\ offset[t] < Len(lanes[lane[t] + 1].data)
       THEN /\ ret' = [ret EXCEPT ![t] = <<lanes[lane[t] + 1].base, offset[t]>>]
            /\ pc' = [pc EXCEPT ![t] = "push_done"]
            /\ locked' = locked
            /\ known' = Max(known, compose(lane[t], offset[t]) + 1)
            /\ UNCHANGED <<rc, released>>
       ELSE /\ PushPanic(t, FALSE)
            /\ UNCHANGED <<ret, known>>
    /\ UNCHANGED <<lanes, len, alive, nextAddr, val, lane, offset, idx, nxt,
                   assigned, told, held, reads, n_threads, pure>>

\* push: lanes[lane].get(offset).expect("just pushed") is returned and the
\* MutexGuard dropped
PushRet(t) ==
    /\ pc[t] = "push_ret"
    /\ Settled
    /\ IF lane[t] < Len(lanes) /\ offset[t] < Len(lanes[lane[t] + 1].data)
       THEN /\ ret' = [ret EXCEPT ![t] = <<lanes[lane[t] + 1].base, offset[t]>>]
            /\ pc' = [pc EXCEPT ![t] = "push_done"]
            /\ locked' = FALSE
            /\ known' = Max(known, compose(lane[t], offset[t]) + 1)
            /\ UNCHANGED <<rc, released>>
       ELSE /\ PushPanic(t, FALSE)
            /\ UNCHANGED <<ret, known>>
    /\ UNCHANGED <<lanes, len, alive, nextAddr, val, lane, offset, idx, nxt,
                   assigned, told, held, reads, n_threads, pure>>

\* get takes no lock, so nothing orders its reads after the writes of a push
\* that is still inside its critical section (a data race). Lane l is fresh
\* when such a push has appended it to the ArrayVec.
FreshLane(l) ==
    \E u \in Threads :
        /\ pc[u] \in {"push_write", "push_inc", "push_ret"}
        /\ lane[u] = l
        /\ offset[u] = 0

\* slot (l, o) is unpublished when lane l is fresh or such a push has written
\* the slot
Unpublished(l, o) ==
    \/ FreshLane(l)
    \/ \E u \in Threads :
           /\ pc[u] \in {"push_inc", "push_ret"}
           /\ lane[u] = l
           /\ offset[u] = o

\* the index into the ArrayVec as get evaluates it: a read racing with the
\* append of lane l sees the length of the ArrayVec before or after it
SeesLane(l, sees) == l < Len(lanes) /\ (sees \/ ~FreshLane(l))

\* the outcomes of get's read of an unpublished slot besides the one the
\* lanes as written give: the lane's length is seen as it was before the
\* write (panic), or the Vec or the slot is read before the write to it is
\* visible, and the reference returned is to memory holding no element
GetElemRaced(t) ==
    /\ Unpublished(lane[t], offset[t])
    /\ \/ /\ pc' = [pc EXCEPT ![t] = "get_panic"]
          /\ UNCHANGED ret
       \/ /\ pc' = [pc EXCEPT ![t] = "get_done"]
          /\ ret' = [ret EXCEPT ![t] = <<Dangling, offset[t]>>]

\* get waiting for the Mutex to be free before it reads the lanes
GetLaneLocked(t, i) ==
    /\ alive
    /\ t < n_threads
    /\ pc[t] = "idle"
    /\ Settled
    /\ ~locked
    /\ reads < MaxReads
    /\ reads' = reads + 1
    /\ idx' = [idx EXCEPT ![t] = i]
    /\ LET lo == lane_offset(i)
       IN  /\ lane' = [lane EXCEPT ![t] = lo[1]]
           /\ offset' = [offset EXCEPT ![t] = lo[2]]
           /\ \E sees \in BOOLEAN :
                  pc' = [pc EXCEPT ![t] =
                            IF SeesLane(lo[1], sees) THEN "get_elem" ELSE "get_panic"]
    /\ told' = [told EXCEPT ![t] = i < known]
    /\ held' = [held EXCEPT ![t] = locked]
    /\ UNCHANGED <<shared, val, ret, nxt, rc, released, assigned, known,
                   n_threads, pure>>

\* get(idx): lane_offset(idx), then (*self.lanes.get())[lane], the
\* bounds-checked index into the ArrayVec; no lock is taken, so the read may
\* race with the append of the lane
GetLane(t, i) ==
    /\ alive
    /\ t < n_threads
    /\ pc[t] = "idle"
    /\ Settled
    /\ reads < MaxReads
    /\ reads' = reads + 1
    /\ idx' = [idx EXCEPT ![t] = i]
    /\ LET lo == lane_offset(i)
       IN  /\ lane' = [lane EXCEPT ![t] = lo[1]]
           /\ offset' = [offset EXCEPT ![t] = lo[2]]
           /\ \E sees \in BOOLEAN :
                  pc' = [pc EXCEPT ![t] =
                            IF SeesLane(lo[1], sees) THEN "get_elem" ELSE "get_panic"]
    /\ told' = [told EXCEPT ![t] = i < known]
    /\ held' = [held EXCEPT ![t] = locked]
    /\ UNCHANGED <<shared, val, ret, nxt, rc, released, assigned, known,
                   n_threads, pure>>

\* get with the index into the lane unchecked
GetElemUnchecked(t) ==
    /\ pc[t] = "get_elem"
    /\ Settled
    /\ \/ /\ ret' = [ret EXCEPT ![t] = <<lanes[lane[t] + 1].base, offset[t]>>]
          /\ pc' = [pc EXCEPT ![t] = "get_done"]
       \/ GetElemRaced(t)
    /\ held' = [held EXCEPT ![t] = @ /\ locked]
    /\ UNCHANGED <<shared, val, lane, offset, idx, nxt, rc, released, assigned,
                   known, told, reads, n_threads, pure>>

\* get with the bound of the lane off by one: the last element is refused
GetElemStrict(t) ==
    /\ pc[t] = "get_elem"
    /\ Settled
    /\ \/ IF offset[t] + 1 < Len(lanes[lane[t] + 1].data)
          THEN /\ ret' = [ret EXCEPT ![t] = <<lanes[lane[t] + 1].base, offset[t]>>]
               /\ pc' = [pc EXCEPT ![t] = "get_done"]
          ELSE /\ pc' = [pc EXCEPT ![t] = "get_panic"]
               /\ UNCHANGED ret
       \/ GetElemRaced(t)
    /\ held' = [held EXCEPT ![t] = @ /\ locked]
    /\ UNCHANGED <<shared, val, lane, offset, idx, nxt, rc, released, assigned,
                   known, told, reads, n_threads, pure>>

\* get: &lanes[lane][offset], the bounds-checked index into the Vec, as the
\* lanes are written or, racing with a push, as GetElemRaced tells
GetElem(t) ==
    /\ pc[t] = "get_elem"
    /\ Settled
    /\ \/ IF offset[t] < Len(lanes[lane[t] + 1].data)
          THEN /\ ret' = [ret EXCEPT ![t] = <<lanes[lane[t] + 1].base, offset[t]>>]
               /\ pc' = [pc EXCEPT ![t] = "get_done"]
          ELSE /\ pc' = [pc EXCEPT ![t] = "get_panic"]
               /\ UNCHANGED ret
       \/ GetElemRaced(t)
    /\ held' = [held EXCEPT ![t] = @ /\ locked]
    /\ UNCHANGED <<shared, val, lane, offset, idx, nxt, rc, released, assigned,
                   known, told, reads, n_threads, pure>>

\* len is called
LenCall(t) ==
    /\ alive
    /\ t < n_threads
    /\ pc[t] = "idle"
    /\ Settled
    /\ pc' = [pc EXCEPT ![t] = "len_lock"]
    /\ reads < MaxReads
    /\ reads' = reads + 1
    /\ UNCHANGED <<shared, locals, rc, released, assigned, known, told,
                   held, n_threads, pure>>

\* len reading the length without the Mutex
LenLockFree(t) ==
    /\ pc[t] = "len_lock"
    /\ Settled
    /\ pc' = [pc EXCEPT ![t] = "len_read"]
    /\ UNCHANGED <<shared, locals, rc, released, history, n_threads, pure>>

\* len: self.len.lock()
LenLock(t) ==
    /\ pc[t] = "len_lock"
    /\ Settled
    /\ ~locked
    /\ locked' = TRUE
    /\ pc' = [pc EXCEPT ![t] = "len_read"]
    /\ UNCHANGED <<lanes, len, alive, nextAddr, locals, rc, released, history,
                   n_threads, pure>>

\* len: the guarded usize is copied out and the MutexGuard dropped
LenRead(t) ==
    /\ pc[t] = "len_read"
    /\ Settled
    /\ ret' = [ret EXCEPT ![t] = <<len>>]
    /\ locked' = FALSE
    /\ known' = Max(known, len)
    /\ pc' = [pc EXCEPT ![t] = "len_done"]
    /\ UNCHANGED <<lanes, len, alive, nextAddr, val, lane, offset, idx, nxt, rc,
                   released, assigned, told, held, reads, n_threads, pure>>

\* the caller takes the result of push, get or len and goes on
Return(t) ==
    /\ pc[t] \in {"push_done", "get_done", "len_done"}
    /\ pc' = [pc EXCEPT ![t] = "idle"]
    /\ val' = [val EXCEPT ![t] = NoValue]
    /\ lane' = [lane EXCEPT ![t] = 0]
    /\ offset' = [offset EXCEPT ![t] = 0]
    /\ idx' = [idx EXCEPT ![t] = 0]
    /\ ret' = [ret EXCEPT ![t] = NoRet]
    /\ told' = [told EXCEPT ![t] = FALSE]
    /\ held' = [held EXCEPT ![t] = FALSE]
    /\ UNCHANGED <<shared, nxt, rc, released, assigned, known, reads, n_threads,
                   pure>>

\* a panic of push or get unwinds the calling thread, which ends
Unwind(t) ==
    /\ pc[t] \in {"push_panic", "get_panic"}
    /\ pc' = [pc EXCEPT ![t] = "dead"]
    /\ val' = [val EXCEPT ![t] = NoValue]
    /\ lane' = [lane EXCEPT ![t] = 0]
    /\ offset' = [offset EXCEPT ![t] = 0]
    /\ idx' = [idx EXCEPT ![t] = 0]
    /\ ret' = [ret EXCEPT ![t] = NoRet]
    /\ told' = [told EXCEPT ![t] = FALSE]
    /\ held' = [held EXCEPT ![t] = FALSE]
    /\ UNCHANGED <<shared, nxt, rc, released, assigned, known, reads, n_threads,
                   pure>>

\* how many slots of the lanes hold value v
Stored(v) ==
    Cardinality(UNION {{<<k, j>> : j \in {j \in 1..Len(lanes[k].data) : lanes[k].data[j] = v}} :
                          k \in 1..Len(lanes)})

\* dropping the Bunch with the elements forgotten: only the buffers are freed
DropLeak ==
    /\ alive
    /\ \A t \in Threads : pc[t] \in {"idle", "dead"}
    /\ alive' = FALSE
    /\ lanes' = <<>>
    /\ UNCHANGED <<len, locked, nextAddr, locals, rc, released, history, pc,
                   n_threads, pure>>

\* the Bunch is dropped, no call being in progress: the ArrayVec drops every
\* lane, and each Vec its elements 0..len and then its buffer
Drop ==
    /\ alive
    /\ \A t \in Threads : pc[t] \in {"idle", "dead"}
    /\ alive' = FALSE
    /\ lanes' = <<>>
    /\ rc' = [v \in Values |-> rc[v] - Stored(v)]
    /\ released' = [v \in Values |-> released[v] + Stored(v)]
    /\ UNCHANGED <<len, locked, nextAddr, locals, history, pc, n_threads, pure>>

Next ==
    \/ \E t \in Threads : PushCall(t)
    \/ \E t \in Threads : PushLock(t)
    \/ \E t \in Threads : PushAlloc(t)
    \/ \E t \in Threads : PushWrite(t)
    \/ \E t \in Threads : PushInc(t)
    \/ \E t \in Threads : PushRet(t)
    \/ \E t \in Threads, i \in Indices : GetLane(t, i)
    \/ \E t \in Threads : GetElem(t)
    \/ \E t \in Threads : LenCall(t)
    \/ \E t \in Threads : LenLock(t)
    \/ \E t \in Threads : LenRead(t)
    \/ \E t \in Threads : Return(t)
    \/ \E t \in Threads : Unwind(t)
    \/ Drop

Spec == Init /\ [][Next]_vars

\* Scheduling: a thread inside push, get or len keeps running, a caller takes
\* the result it is handed, and a thread waiting for the Mutex gets it if it
\* is free again and again (parking_lot's Mutex hands over fairly in the
\* end). Nothing obliges a thread to make a call, or the owner to drop the
\* Bunch.
Fairness ==
    \A t \in Threads :
        /\ SF_vars(PushLock(t))
        /\ WF_vars(PushAlloc(t))
        /\ WF_vars(PushWrite(t))
        /\ WF_vars(PushInc(t))
        /\ WF_vars(PushRet(t))
        /\ WF_vars(GetElem(t))
        /\ SF_vars(LenLock(t))
        /\ WF_vars(LenRead(t))
        /\ WF_vars(Return(t))
        /\ WF_vars(Unwind(t))

\* tests::multithreading with n = n_threads: every thread has one push to
\* make, and one read is left
InitFair ==
    /\ BunchNew
    /\ n_threads \in 1..MaxThreads
    /\ pc = [t \in Threads |-> "idle"]
    /\ val = [t \in Threads |-> NoValue]
    /\ lane = [t \in Threads |-> 0]
    /\ offset = [t \in Threads |-> 0]
    /\ idx = [t \in Threads |-> 0]
    /\ ret = [t \in Threads |-> NoRet]
    /\ nxt = [t \in Threads |-> IF t < n_threads THEN MaxN - n_threads + t ELSE t]
    /\ reads = MaxReads - 1
    /\ rc = [v \in Values |-> 1]
    /\ released = [v \in Values |-> 0]
    /\ assigned = <<>>
    /\ known = 0
    /\ told = [t \in Threads |-> FALSE]
    /\ held = [t \in Threads |-> FALSE]
    /\ d_in = 0
    /\ d_out = <<>>
    /\ d_pc = "off"

SpecFair == InitFair /\ [][Next]_vars /\ Fairness

(***************************************************************************)
(* The arena already holding elements, pushed by earlier calls, when the   *)
(* threads start: one thread starting from every length, and two threads   *)
(* starting with the last lane lane_size can size full or nearly full.     *)
(***************************************************************************)
\* the value of the elements pushed before the threads start
Old == 0 - 3

\* the lengths two threads start with
TopStart == {WordRange - 3, WordRange - 2}

\* the lanes of an arena after n pushes of Old, n > 0: every lane but the
\* last is full; a lane created with capacity 0 (lane_size wrapped) has grown
\* to Vec's first capacity, 4
ArenaOf(n) ==
    LET last == lane_offset(n - 1)
    IN  [k \in 1..(last[1] + 1) |->
            [base |-> k - 1,
             cap |-> IF lane_size(k - 1) = 0 THEN 4 ELSE lane_size(k - 1),
             data |-> [j \in 1..(IF k = last[1] + 1 THEN last[2] + 1
                                                    ELSE lane_size(k - 1)) |-> Old]]]

InitFull ==
    /\ n_threads \in {1, 2}
    /\ len \in (IF n_threads = 1 THEN 1..(WordRange - 1) ELSE TopStart)
    /\ lanes = ArenaOf(len)
    /\ nextAddr = Len(lanes)
    /\ locked = FALSE
    /\ alive = TRUE
    /\ InitThreads
    /\ d_in = 0
    /\ d_out = <<>>
    /\ d_pc = "off"

SpecFull == InitFull /\ [][Next]_vars

(***************************************************************************)
(* The arithmetic on its own: lane_offset applied to every usize, and      *)
(* lane_size to every index of the ArrayVec.                               *)
(***************************************************************************)
InitDecompose ==
    /\ BunchNew
    /\ n_threads = 1
    /\ InitThreads
    /\ d_pc \in {"call", "size"}
    /\ d_in \in (IF d_pc = "call" THEN 0..(WordRange - 1) ELSE 0..(N_LANES - 1))
    /\ d_out = <<>>

\* lane_offset(d_in) is computed; the third component tells whether a debug
\* build would have panicked on an overflow
Decompose ==
    /\ d_pc = "call"
    /\ d_out' = lane_offset(d_in) \o <<lane_offset_overflows(d_in)>>
    /\ d_pc' = "done"
    /\ UNCHANGED <<shared, locals, rc, released, history, pc, n_threads, d_in>>

\* lane_size(d_in) is computed and Vec::with_capacity called with it; the
\* second component tells whether a debug build would have panicked on an
\* overflow
LaneSize ==
    /\ d_pc = "size"
    /\ d_out' = <<lane_size(d_in), lane_size_overflows(d_in),
                  with_capacity(lane_size(d_in))>>
    /\ d_pc' = "sized"
    /\ UNCHANGED <<shared, locals, rc, released, history, pc, n_threads, d_in>>

NextDecompose ==
    \/ Decompose
    \/ LaneSize

SpecDecompose == InitDecompose /\ [][NextDecompose]_vars

(***************************************************************************)
(* Properties                                                              *)
(***************************************************************************)
\* the positions of push inside its critical section
CS == {"push_alloc", "push_write", "push_inc", "push_ret"}

\* slot (l, o) of the lanes has been written
WrittenAt(l, o) == l < Len(lanes) /\ o < Len(lanes[l + 1].data)

\* the address of slot (l, o)
AddrAt(l, o) == <<lanes[l + 1].base, o>>

\* the value in slot (l, o)
ValueIn(l, o) == lanes[l + 1].data[o + 1]

\* the slot logical index i resolves to has been written
Written(i) == LET lo == lane_offset(i) IN WrittenAt(lo[1], lo[2])

\* the address of the slot logical index i resolves to
SlotAddr(i) == LET lo == lane_offset(i) IN AddrAt(lo[1], lo[2])

\* the value in the slot logical index i resolves to
ValueAt(i) == LET lo == lane_offset(i) IN ValueIn(lo[1], lo[2])

\* the push of value v has returned
ReturnedValue(v) ==
    /\ v < nxt[v % n_threads]
    /\ ~(v = val[v % n_threads] /\ pc[v % n_threads] # "push_done")

\* the pushes of thread t that have returned
Returned(t) == {v \in Values : v % n_threads = t /\ ReturnedValue(v)}

\* every thread has made all its pushes and they have returned
AllPushed ==
    \A t \in Threads :
        t < n_threads => nxt[t] >= MaxN /\ pc[t] \notin ({"push_lock", "push_panic"} \cup CS)

\* C1: lane_offset depends on the index alone, so a logical index resolves to
\* the same slot (lane, offset) in every state; while the arena is alive,
\* every step of every thread, segment allocations included, leaves each
\* written slot written, at the same address and holding the same value.
C1_ReferenceStability ==
    [][alive' =>
         \A k \in 1..Len(lanes) :
             /\ k <= Len(lanes')
             /\ lanes'[k].base = lanes[k].base
             /\ \A j \in 1..Len(lanes[k].data) :
                    /\ j <= Len(lanes'[k].data)
                    /\ lanes'[k].data[j] = lanes[k].data[j]]_vars

C1_Witness ==
    /\ n_threads = MaxThreads
    /\ Len(lanes) >= 2
    /\ Len(lanes[2].data) >= 2
    /\ SlotAddr(0) = <<0, 0>>
    /\ ValueAt(0) = assigned[1]
    /\ \E t \in Threads : pc[t] = "push_inc" /\ lane[t] = 1

\* C2: with a single thread pushing 0, 1, 2, ... into a new arena, no push
\* panics, every push returns a reference to the value it was given, every
\* index below the number of pushes made holds the value pushed at that
\* index, and get of such an index returns that value and does not panic.
C2_Sequential ==
    (n_threads = 1 /\ alive) =>
        /\ pc[0] # "push_panic"
        /\ pc[0] = "push_done" => Deref(ret[0]) = val[0]
        /\ \A i \in Values : i \in Returned(0) => Written(i) /\ ValueAt(i) = i
        /\ pc[0] = "get_done" => Deref(ret[0]) = idx[0]
        /\ pc[0] = "get_panic" => idx[0] \notin Returned(0)

C2_Witness ==
    /\ n_threads = 1
    /\ Returned(0) = Values
    /\ pc[0] = "get_done"
    /\ idx[0] = MaxN - 1
    /\ Deref(ret[0]) = MaxN - 1

\* C3: no push panics, and once every thread has pushed its partition of
\* 0..MaxN-1, the length is MaxN, every index below it is written, the values
\* read at these indices are the pushed values, each exactly once, and len
\* returns MaxN.
C3_ConcurrentPush ==
    /\ \A t \in Threads : pc[t] # "push_panic"
    /\ (alive /\ AllPushed) =>
          /\ len = MaxN
          /\ \A i \in Values : Written(i)
          /\ {ValueAt(i) : i \in Values} = Values
          /\ \A t \in Threads : pc[t] = "len_done" => ret[t] = <<MaxN>>

C3_Witness ==
    /\ alive
    /\ AllPushed
    /\ n_threads = MaxThreads
    /\ ValueAt(0) # 0
    /\ \E t \in Threads : pc[t] = "len_done" /\ ret[t] = <<MaxN>>

\* C4: at most one thread is inside the critical section of push.
C4_MutualExclusion == Cardinality({t \in Threads : pc[t] \in CS}) <= 1

C4_Witness ==
    \E t, u \in Threads : pc[t] = "push_write" /\ pc[u] = "push_lock" /\ locked

\* C5: get never waits: a thread that may call get can make the call with
\* any index, and a thread inside get can take its next step, whether or not
\* the Mutex is held.
C5_GetNeverBlocks ==
    Settled =>
        \A t \in Threads :
            /\ (alive /\ t < n_threads /\ pc[t] = "idle" /\ reads < MaxReads)
                   => \A i \in Indices : ENABLED GetLane(t, i)
            /\ pc[t] = "get_elem" => ENABLED GetElem(t)

C5_Witness ==
    \E t, u \in Threads :
        /\ pc[t] = "get_done"
        /\ held[t]
        /\ told[t]
        /\ pc[u] \in CS

\* C6 as stated: a pending len call can always take the Mutex step, also
\* while another thread is inside the critical section of push.
C6_LenNeverBlocks ==
    \A t, u \in Threads :
        (Settled /\ pc[t] = "len_lock" /\ pc[u] \in CS) => ENABLED LenLock(t)

\* C6 as amended: len takes the Mutex: a pending len call can proceed exactly
\* when the Mutex is free, and while len reads the length no thread is inside
\* the critical section of push.
C6_LenTakesLock ==
    \A t \in Threads :
        /\ (Settled /\ pc[t] = "len_lock") => (ENABLED LenLock(t) <=> ~locked)
        /\ pc[t] = "len_read" => locked /\ \A u \in Threads : pc[u] \notin CS

C6_Witness ==
    \E t, u \in Threads : pc[t] = "len_lock" /\ pc[u] = "push_write" /\ Settled

\* C7: a get called with an index below a length that some caller has been
\* told (by len, or by a returned push) does not panic and returns the value
\* of the push that was assigned that index, whatever the other threads do
\* meanwhile.
C7_Ordering ==
    \A t \in Threads :
        told[t] =>
            /\ pc[t] # "get_panic"
            /\ pc[t] = "get_done" =>
                   /\ idx[t] < Len(assigned)
                   /\ Deref(ret[t]) = assigned[idx[t] + 1]

C7_Witness ==
    \E t, u \in Threads :
        /\ told[t]
        /\ held[t]
        /\ pc[t] = "get_done"
        /\ pc[u] = "push_write"
        /\ offset[u] = 0
        /\ Len(lanes) = lane[u] + 1
        /\ lane[t] = lane[u] - 1
        /\ offset[t] = lane_size(lane[t]) - 1

C9_Lifecycle ==
    /\ alive =>
          \A v \in Values :
              /\ released[v] = 0
              /\ ReturnedValue(v) => Stored(v) = 1 /\ rc[v] = 2
    /\ ~alive =>
          \A v \in Values :
              /\ rc[v] = 1
              /\ released[v] = IF \E k \in 1..Len(assigned) : assigned[k] = v THEN 1 ELSE 0

C9_Witness ==
    /\ ~alive
    /\ n_threads = MaxThreads
    /\ \A v \in Values : released[v] = 1 /\ rc[v] = 1

\* C10: for every usize index, lane_offset(index) = (lane, offset) has
\* 0 <= offset < 2^(lane+1) and (2^(lane+1) - 2) + offset = index, and no
\* intermediate result overflows; 0, 1, 2, 5, 6 map to (0,0), (0,1), (1,0),
\* (1,3), (2,0).
C10_RoundTrip ==
    d_pc = "done" =>
        /\ d_out[1] >= 0
        /\ d_out[1] < USIZE_BITS
        /\ d_out[2] >= 0
        /\ d_out[2] < 2^(d_out[1] + 1)
        /\ (2^(d_out[1] + 1) - 2) + d_out[2] = d_in
        /\ ~d_out[3]
        /\ d_in = 0 => d_out = <<0, 0, FALSE>>
        /\ d_in = 1 => d_out = <<0, 1, FALSE>>
        /\ d_in = 2 => d_out = <<1, 0, FALSE>>
        /\ d_in = 5 => d_out = <<1, 3, FALSE>>
        /\ d_in = 6 => d_out = <<2, 0, FALSE>>

C10_Witness ==
    /\ d_pc = "done"
    /\ d_in = WordRange - 1
    /\ d_out = <<USIZE_BITS - 1, 1, FALSE>>

\* the pushes whose critical section has run to its end: those that took the
\* Mutex, less those that hold it
Completed == Len(assigned) - Cardinality({t \in Threads : pc[t] \in CS})

\* C11: the length starts at 0; a step leaves it unchanged or is the
\* increment of a push and adds exactly one; the length is the number of
\* completed pushes, plus one while a push has incremented it and still holds
\* the Mutex; len reads it only when no push holds the Mutex, so the length it
\* reads and returns is the number of completed pushes.
C11_LogicalLength ==
    /\ len = 0
    /\ [][\/ len' = len
          \/ /\ len' = len + 1
             /\ \E t \in Threads : pc[t] = "push_inc" /\ pc'[t] = "push_ret"]_vars
    /\ [](/\ len = Completed + Cardinality({t \in Threads : pc[t] = "push_ret"})
          /\ \A t \in Threads :
                /\ pc[t] = "len_read" => len = Completed
                /\ pc[t] = "len_done" => ret[t] = <<Completed>>)

C11_Witness ==
    \E t, u \in Threads :
        /\ pc[t] = "len_done"
        /\ ret[t] = <<Completed>>
        /\ Completed > 0
        /\ pc[u] = "push_lock"

\* C12: whenever get returns, the reference it returns reads the value given
\* to the push that was assigned the index get was called with.
C12_NoStaleReads ==
    \A t \in Threads :
        pc[t] = "get_done" =>
            /\ idx[t] < Len(assigned)
            /\ Deref(ret[t]) = assigned[idx[t] + 1]

\* C13 as stated: for every lane index k below N_LANES, lane_size(k) is
\* computed without overflow and equals 2^(k+1), and the Vec created for lane
\* k has that capacity.
C13_CapacityEveryLane ==
    d_pc = "sized" =>
        /\ ~d_out[2]
        /\ d_out[1] = pow2(d_in + 1)
        /\ d_out[3].cap = pow2(d_in + 1)

\* C13 as amended: for every lane index k up to USIZE_BITS - 2, lane_size(k)
\* is computed without overflow and equals 2^(k+1), and the Vec created for
\* lane k is empty and has exactly that capacity; from k = USIZE_BITS - 1 on,
\* 2^(k+1) is not a usize: the computation overflows, and where it wraps the
\* result is 0 and the Vec is created with capacity 0.
C13_SegmentCapacity ==
    d_pc = "sized" =>
        /\ d_in <= USIZE_BITS - 2 =>
               /\ ~d_out[2]
               /\ d_out[1] = 2^(d_in + 1)
               /\ d_out[3].cap = 2^(d_in + 1)
               /\ d_out[3].data = <<>>
        /\ d_in >= USIZE_BITS - 1 =>
               /\ d_out[2]
               /\ d_out[1] = 0
               /\ d_out[3].cap = 0

C13_Witness ==
    /\ d_pc = "sized"
    /\ d_in = USIZE_BITS - 2
    /\ d_out[1] = WordRange \div 2
    /\ ~d_out[2]

\* the lanes that exist, by index
Segments == {k - 1 : k \in 1..Len(lanes)}

\* the slots that have been written, as (lane, offset)
WrittenSlots ==
    UNION {{<<k - 1, j - 1>> : j \in 1..Len(lanes[k].data)} : k \in 1..Len(lanes)}

\* the slots the indices below n resolve to
SlotsBelow(n) == {lane_offset(i) : i \in 0..(n - 1)}

\* the lanes the indices below n resolve to
SegmentsBelow(n) == {lo[1] : lo \in SlotsBelow(n)}

\* C14 as stated: in every state of a live arena the lanes are those of the
\* indices below the length and the written slots are the slots of the
\* indices below the length.
C14_CoExtensiveAlways ==
    alive => Segments = SegmentsBelow(len) /\ WrittenSlots = SlotsBelow(len)

\* C14 as amended: that holds in every state in which no push is inside its
\* critical section. While a push is inside it, holding (lane, offset) of the
\* length it read, the lanes are those of the indices below the length and,
\* from the allocation to the increment, the new lane `lane` when offset is
\* 0; the written slots are those of the indices below the length and, from
\* the append to the increment, the slot (lane, offset), which is the slot of
\* the index equal to the length.
C14_CoExtensive ==
    alive =>
        /\ Segments = SegmentsBelow(len) \cup
               {lane[u] : u \in {u \in Threads :
                   pc[u] \in {"push_write", "push_inc"} /\ offset[u] = 0}}
        /\ WrittenSlots = SlotsBelow(len) \cup
               {<<lane[u], offset[u]>> : u \in {u \in Threads : pc[u] = "push_inc"}}
        /\ \A u \in Threads :
               pc[u] \in {"push_alloc", "push_write", "push_inc"} =>
                   <<lane[u], offset[u]>> = lane_offset(len)
        /\ (\A u \in Threads : pc[u] \notin CS) =>
               Segments = SegmentsBelow(len) /\ WrittenSlots = SlotsBelow(len)

C14_Witness ==
    \E u \in Threads :
        /\ alive
        /\ pc[u] = "push_inc"
        /\ lane[u] = 1
        /\ offset[u] = 0
        /\ len = 2
        /\ Segments = {0, 1}
        /\ <<1, 0>> \in WrittenSlots

\* C15: a step adds no lane or exactly one, and one only as the allocation of
\* a push whose offset is 0 and whose lane is the next index; the lane before
\* it then holds exactly 2^(its index + 1) elements and the new lane is empty;
\* a push reaches its allocation only straight from taking the Mutex, so at
\* most once; lane k has capacity 2^(k+1), never holds more, and every lane
\* but the last is full.
C15_GrowthOrder ==
    /\ [][alive' =>
            \/ Len(lanes') = Len(lanes)
            \/ /\ Len(lanes') = Len(lanes) + 1
               /\ \E t \in Threads :
                      /\ pc[t] = "push_alloc"
                      /\ pc'[t] = "push_write"
                      /\ offset[t] = 0
                      /\ lane[t] = Len(lanes)
               /\ Len(lanes) > 0 => Len(lanes[Len(lanes)].data) = 2^Len(lanes)
               /\ lanes'[Len(lanes')].data = <<>>
               /\ \A k \in 1..Len(lanes) : lanes'[k] = lanes[k]]_vars
    /\ [][\A t \in Threads :
              pc'[t] = "push_alloc" => pc[t] \in {"push_lock", "push_alloc"}]_vars
    /\ [](alive =>
            \A k \in 1..Len(lanes) :
                /\ lanes[k].cap = 2^k
                /\ Len(lanes[k].data) <= lanes[k].cap
                /\ k < Len(lanes) => Len(lanes[k].data) = lanes[k].cap)
    /\ [](\A t \in Threads :
            pc[t] = "push_alloc" =>
                offset[t] = 0 /\ <<lane[t], offset[t]>> = lane_offset(len))

C15_Witness ==
    \E t \in Threads :
        /\ pc[t] = "push_write"
        /\ offset[t] = 0
        /\ lane[t] = 1
        /\ Len(lanes) = 2
        /\ Len(lanes[1].data) = 2
        /\ lanes[2].data = <<>>
        /\ n_threads = MaxThreads

\* C16: when push is about to write its element, (lane, offset) is the
\* decomposition of the length, lane is the last lane, the lane holds exactly
\* offset elements and fewer than its capacity; the write appends the value
\* at offset in place, the lane keeping its address and capacity; after it
\* the slot (lane, offset) holds the value, and the lookup of the slot
\* succeeds: push never panics and returns the address of that slot.
C16_WriteSlot ==
    /\ [](\A t \in Threads :
            /\ pc[t] # "push_panic"
            /\ pc[t] = "push_write" =>
                   /\ <<lane[t], offset[t]>> = lane_offset(len)
                   /\ lane[t] = Len(lanes) - 1
                   /\ Len(lanes[lane[t] + 1].data) = offset[t]
                   /\ offset[t] < lanes[lane[t] + 1].cap
            /\ pc[t] \in {"push_inc", "push_ret"} =>
                   /\ lane[t] = Len(lanes) - 1
                   /\ Len(lanes[lane[t] + 1].data) = offset[t] + 1
                   /\ ValueIn(lane[t], offset[t]) = val[t]
            /\ pc[t] = "push_done" =>
                   /\ ret[t] = AddrAt(lane[t], offset[t])
                   /\ Deref(ret[t]) = val[t])
    /\ [][\A t \in Threads :
              (pc[t] = "push_write" /\ pc'[t] # "push_write") =>
                  /\ pc'[t] = "push_inc"
                  /\ lanes'[lane[t] + 1].base = lanes[lane[t] + 1].base
                  /\ lanes'[lane[t] + 1].cap = lanes[lane[t] + 1].cap
                  /\ lanes'[lane[t] + 1].data = Append(lanes[lane[t] + 1].data, val[t])
                  /\ nextAddr' = nextAddr]_vars

C16_Witness ==
    \E t \in Threads :
        /\ pc[t] = "push_inc"
        /\ lane[t] = 0
        /\ offset[t] = lane_size(0) - 1
        /\ Len(lanes[1].data) = lanes[1].cap
        /\ ValueIn(0, offset[t]) = val[t]
        /\ n_threads = MaxThreads

\* C17: whatever the length, the lane a push derives from it is below
\* N_LANES; the ArrayVec never holds more than N_LANES lanes, and a push finds
\* it full at its allocation only once the length has passed the top of the
\* usize range and is 0 again; a push fails only there or, where overflow is
\* checked, at the last lane a usize can index, whose size is not a usize;
\* the value of a failed push is stored in no slot.
C17_CapacityExhaustion ==
    /\ Len(lanes) <= N_LANES
    /\ \A t \in Threads :
          /\ pc[t] \in CS => lane[t] < N_LANES
          /\ (pc[t] = "push_alloc" /\ Len(lanes) >= N_LANES) => len = 0
          /\ pc[t] = "push_panic" =>
                 /\ Stored(val[t]) = 0
                 /\ offset[t] = 0
                 /\ \/ len = WordRange - 2 /\ lane[t] = USIZE_BITS - 1
                    \/ len = 0 /\ Len(lanes) = N_LANES

C17_Witness ==
    \E t \in Threads :
        /\ pc[t] = "push_panic"
        /\ len = 0
        /\ Len(lanes) = N_LANES
        /\ WrittenSlots = SlotsBelow(WordRange - 1) \cup {lane_offset(WordRange - 1)}

\* a push has failed: the value it was given has been dropped with the arena
\* alive
FailedPush == alive /\ \E v \in Values : released[v] > 0

\* C20: a push fails only at its allocation, and the failing step leaves the
\* length and the lanes, with every element in them, unchanged and the Mutex
\* free; the Mutex is held only by a thread inside push or len, so after the
\* failure a len call can take it and returns the length, and a get that
\* does not race with a push panics only when its slot is unwritten and
\* otherwise returns the address of its slot.
C20_FailedPushIntact ==
    /\ [][\A t \in Threads :
              (pc'[t] = "push_panic" /\ pc[t] # "push_panic") =>
                  /\ pc[t] = "push_alloc"
                  /\ len' = len
                  /\ lanes' = lanes
                  /\ locked
                  /\ ~locked']_vars
    /\ [](locked <=> \E t \in Threads : pc[t] \in CS \cup {"len_read"})
    /\ [](FailedPush =>
            \A t \in Threads :
                /\ pc[t] = "len_done" => ret[t] = <<len>>
                /\ (pc[t] = "get_panic" /\ ~Unpublished(lane[t], offset[t])) =>
                       ~Written(idx[t])
                /\ (pc[t] = "get_done" /\ ~Unpublished(lane[t], offset[t])) =>
                       /\ Written(idx[t])
                       /\ ret[t] = SlotAddr(idx[t])
                       /\ Deref(ret[t]) = ValueAt(idx[t]))

C20_Witness ==
    \E t, u \in Threads :
        /\ FailedPush
        /\ pc[u] = "dead"
        /\ len = WordRange - 2
        /\ Len(lanes) = N_LANES - 1
        /\ pc[t] = "get_done"
        /\ Deref(ret[t]) = Old
        /\ reads = 1

\* the arena read as a list: the values at the indices below the length
ValueSeq == [i \in 1..len |-> ValueAt(i - 1)]

\* C19: the push that takes the Mutex is assigned the index equal to the
\* length it reads, which is the number of pushes that took the Mutex before
\* it, so the indices are 0, 1, 2, ... in the order of the critical sections;
\* the list of the values in that order only grows, by appends; the arena
\* read at the indices below the length is that list up to the length, and
\* the whole list when no push is inside its critical section; a get that
\* does not race with a push returns the value at its index in that list.
C19_Linearization ==
    /\ [][\/ assigned' = assigned
          \/ \E t \in Threads :
                 /\ pc[t] = "push_lock"
                 /\ pc'[t] \in CS
                 /\ assigned' = Append(assigned, val[t])
                 /\ len = Len(assigned)
                 /\ compose(lane'[t], offset'[t]) = len]_vars
    /\ [](alive =>
            /\ len <= Len(assigned)
            /\ ValueSeq = SubSeq(assigned, 1, len)
            /\ (\A t \in Threads : pc[t] \notin CS) => ValueSeq = assigned
            /\ \A t \in Threads :
                   /\ pc[t] \in CS =>
                          compose(lane[t], offset[t]) = Len(assigned) - 1
                   /\ (pc[t] = "get_done" /\ ~Unpublished(lane[t], offset[t])) =>
                          Deref(ret[t]) = assigned[idx[t] + 1])

C19_Witness ==
    \E t \in Threads :
        /\ alive
        /\ AllPushed
        /\ n_threads = MaxThreads
        /\ ValueSeq = assigned
        /\ assigned[1] # 0
        /\ assigned[MaxN] # MaxN - 1
        /\ pc[t] = "get_done"
        /\ idx[t] = MaxN - 1
        /\ Deref(ret[t]) = assigned[MaxN]

\* C18: no state is a deadlock: a thread inside push, get or len can take its
\* next step unless it waits for the Mutex, and it waits only while the Mutex
\* is held, which only a thread inside push or len does; under fair
\* scheduling a push that holds the Mutex releases it, and every push and
\* every len that was called returns.
C18_RunToCompletion ==
    /\ [](/\ locked <=> \E t \in Threads : pc[t] \in CS \cup {"len_read"}
          /\ \A t \in Threads :
                /\ pc[t] \in {"push_done", "get_done", "len_done"} => ENABLED Return(t)
                /\ pc[t] \in {"push_panic", "get_panic"} => ENABLED Unwind(t)
                /\ Settled =>
                       /\ pc[t] = "push_lock" => (ENABLED PushLock(t) <=> ~locked)
                       /\ pc[t] = "len_lock" => (ENABLED LenLock(t) <=> ~locked)
                       /\ pc[t] = "push_alloc" => ENABLED PushAlloc(t)
                       /\ pc[t] = "push_write" => ENABLED PushWrite(t)
                       /\ pc[t] = "push_inc" => ENABLED PushInc(t)
                       /\ pc[t] = "push_ret" => ENABLED PushRet(t)
                       /\ pc[t] = "get_elem" => ENABLED GetElem(t)
                       /\ pc[t] = "len_read" => ENABLED LenRead(t))
    /\ \A t \in Threads :
          /\ (pc[t] \in CS) ~> (pc[t] = "push_done" /\ ~locked)
          /\ (pc[t] = "push_lock") ~> (pc[t] = "push_done")
          /\ (pc[t] = "len_lock") ~> (pc[t] = "len_done")
          /\ (pc[t] = "get_elem") ~> (pc[t] \in {"get_done", "get_panic"})

C18_Witness ==
    \E t, u \in Threads :
        /\ pc[t] = "push_done"
        /\ pc[u] = "len_lock"
        /\ ~locked
        /\ nxt[t] >= MaxN
        /\ n_threads = MaxThreads

====
